---- MODULE Spec2Model ----
(***************************************************************************)
(* Model of the Markdown -> SVG text-flow extension (load_txt_to_SVG).     *)
(* Texts are sequences of characters; a character is a one-element name    *)
(* ("A", " ", "\n", ...) and non-ASCII characters are named by their code  *)
(* point ("U+3000").  ord maps a character to its code point, so that the  *)
(* width model and the whitespace tests are the range tests of the source. *)
(***************************************************************************)
EXTENDS Integers, Sequences, FiniteSets, TLC

(* ----------------------------------------------------------------------- *)
(* Characters                                                              *)
(* ----------------------------------------------------------------------- *)

\* the printable ASCII characters, in code point order starting at 32
AsciiPrintable ==
  << " ", "!", "\"", "#", "$", "%", "&", "'", "(", ")", "*", "+", ",", "-", ".", "/",
     "0", "1", "2", "3", "4", "5", "6", "7", "8", "9", ":", ";", "<", "=", ">", "?",
     "@", "A", "B", "C", "D", "E", "F", "G", "H", "I", "J", "K", "L", "M", "N", "O",
     "P", "Q", "R", "S", "T", "U", "V", "W", "X", "Y", "Z", "[", "\\", "]", "^", "_",
     "U+0060", "a", "b", "c", "d", "e", "f", "g", "h", "i", "j", "k", "l", "m", "n", "o",
     "p", "q", "r", "s", "t", "u", "v", "w", "x", "y", "z", "{", "|", "}", "~" >>

\* Python's ord() on the characters the model uses
ord(ch) ==
  CASE ch = "\t" -> 9
    [] ch = "\n" -> 10
    [] ch = "\r" -> 13
    [] ch = "U+2022" -> 8226      \* bullet
    [] ch = "U+3000" -> 12288     \* ideographic (full-width) space
    [] ch = "U+30FB" -> 12539     \* katakana middle dot
    [] ch = "U+5168" -> 20840     \* a CJK ideograph
    [] ch = "U+FF03" -> 65283     \* full-width number sign
    [] ch = "U+FF0A" -> 65290     \* full-width asterisk
    [] ch = "U+FF0D" -> 65293     \* full-width hyphen-minus
    [] ch = "U+FF0E" -> 65294     \* full-width full stop
    [] ch = "U+FF11" -> 65297     \* full-width digit one
    [] OTHER -> 31 + (CHOOSE i \in 1..Len(AsciiPrintable) : AsciiPrintable[i] = ch)

FULLWIDTH_SPACE == "U+3000"

is_fullwidth(ch) ==
  LET o == ord(ch)
  IN  \/ (12288 <= o /\ o <= 12543)
      \/ (13312 <= o /\ o <= 40959)
      \/ (65281 <= o /\ o <= 65376)
      \/ (65504 <= o /\ o <= 65510)

\* str.isspace() / regex \s on a single character
IsSpace(ch) ==
  LET o == ord(ch)
  IN  \/ (9 <= o /\ o <= 13)
      \/ (28 <= o /\ o <= 32)
      \/ o \in {133, 160, 5760, 8232, 8233, 8239, 8287, 12288}
      \/ (8192 <= o /\ o <= 8202)

(* ----------------------------------------------------------------------- *)
(* String helpers (Python str methods on sequences of characters)          *)
(* ----------------------------------------------------------------------- *)

\* s[i..] starts with pat (1-based i)
StartsWithAt(s, i, pat) ==
  /\ i + Len(pat) - 1 <= Len(s)
  /\ \A k \in 1..Len(pat) : s[i + k - 1] = pat[k]

RECURSIVE ReplaceFrom(_, _, _, _)
ReplaceFrom(s, i, pat, rep) ==
  IF i > Len(s) THEN << >>
  ELSE IF StartsWithAt(s, i, pat)
       THEN rep \o ReplaceFrom(s, i + Len(pat), pat, rep)
       ELSE << s[i] >> \o ReplaceFrom(s, i + 1, pat, rep)

\* str.replace(pat, rep) for a non-empty pat
Replace(s, pat, rep) == ReplaceFrom(s, 1, pat, rep)

RECURSIVE SplitFrom(_, _, _, _)
SplitFrom(s, i, sep, cur) ==
  IF i > Len(s) THEN << cur >>
  ELSE IF s[i] = sep
       THEN << cur >> \o SplitFrom(s, i + 1, sep, << >>)
       ELSE SplitFrom(s, i + 1, sep, Append(cur, s[i]))

\* str.split(sep) for a one-character sep; "".split(sep) is [""]
Split(s, sep) == SplitFrom(s, 1, sep, << >>)

RECURSIVE Join(_, _)
\* sep.join(parts)
Join(parts, sep) ==
  IF Len(parts) = 0 THEN << >>
  ELSE IF Len(parts) = 1 THEN parts[1]
  ELSE parts[1] \o sep \o Join(Tail(parts), sep)

RECURSIVE rstrip(_)
\* str.rstrip()
rstrip(s) ==
  IF Len(s) > 0 /\ IsSpace(s[Len(s)]) THEN rstrip(SubSeq(s, 1, Len(s) - 1)) ELSE s

RECURSIVE lstripChars(_, _)
\* str.lstrip(chars)
lstripChars(s, chars) ==
  IF Len(s) > 0 /\ s[1] \in chars THEN lstripChars(Tail(s), chars) ELSE s

\* str.lstrip()
lstrip(s) ==
  LET n == Cardinality({i \in 1..Len(s) : \A k \in 1..i : IsSpace(s[k])})
  IN  SubSeq(s, n + 1, Len(s))

\* str.strip()
strip(s) == lstrip(rstrip(s))

(* ----------------------------------------------------------------------- *)
(* Line Wrapper: wrap_text_to_cols                                         *)
(* ----------------------------------------------------------------------- *)

\* length of the longest match of \s*$ (multi-line mode) starting at position i:
\* the whitespace run from i, cut back to a position that is the end of the
\* text or stands before a line feed; -1 when there is no such position
RECURSIVE WsRunLen(_, _)
WsRunLen(s, i) == IF i <= Len(s) /\ IsSpace(s[i]) THEN 1 + WsRunLen(s, i + 1) ELSE 0

EolMatchLen(s, i) ==
  LET run == WsRunLen(s, i)
      ok  == {k \in 0..run : i + k > Len(s) \/ s[i + k] = "\n"}
  IN  IF ok = {} THEN -1 ELSE CHOOSE k \in ok : \A j \in ok : j <= k

RECURSIVE SubTrailingBackslashFrom(_, _)
SubTrailingBackslashFrom(s, i) ==
  IF i > Len(s) THEN << >>
  ELSE IF s[i] = "\\" /\ EolMatchLen(s, i + 1) >= 0
       THEN << "\n" >> \o SubTrailingBackslashFrom(s, i + 1 + EolMatchLen(s, i + 1))
       ELSE << s[i] >> \o SubTrailingBackslashFrom(s, i + 1)

\* re.sub(r"(?m)\\\s*$", "\n", text)
SubTrailingBackslash(s) == SubTrailingBackslashFrom(s, 1)

\* width of one character: 2 if is_fullwidth else 1
CharWidth(ch) == IF is_fullwidth(ch) THEN 2 ELSE 1

RECURSIVE WidthSum(_)
WidthSum(line) == IF Len(line) = 0 THEN 0 ELSE CharWidth(line[1]) + WidthSum(Tail(line))

\* wrap loop that counts every character as one column
RECURSIVE WrapPara_OneColumnEach(_, _, _, _, _)
WrapPara_OneColumnEach(para, i, line, wsum, cols) ==
  IF i > Len(para) THEN << line >>
  ELSE LET ch == para[i]
       IN  IF wsum + 1 > cols
           THEN IF ch = " "
                THEN << line >> \o WrapPara_OneColumnEach(para, i + 1, << >>, 0, cols)
                ELSE << line >> \o WrapPara_OneColumnEach(para, i + 1, << ch >>, 1, cols)
           ELSE WrapPara_OneColumnEach(para, i + 1, Append(line, ch), wsum + 1, cols)

\* the inner loop of wrap_text_to_cols over one paragraph, from character i,
\* with the current line and its width sum; returns the lines it emits
RECURSIVE WrapPara(_, _, _, _, _)
WrapPara(para, i, line, wsum, cols) ==
  IF i > Len(para) THEN << line >>
  ELSE LET ch == para[i]
           w  == CharWidth(ch)
       IN  IF wsum + w > cols
           THEN IF ch = " "
                THEN << line >> \o WrapPara(para, i + 1, << >>, 0, cols)
                ELSE << line >> \o WrapPara(para, i + 1, << ch >>, w, cols)
           ELSE WrapPara(para, i + 1, Append(line, ch), wsum + w, cols)

\* wrap of the paragraphs at one column less than the budget
RECURSIVE WrapParas_NarrowBudget(_, _)
WrapParas_NarrowBudget(paras, cols) ==
  IF Len(paras) = 0 THEN << >>
  ELSE (IF paras[1] = << >> THEN << << >> >> ELSE WrapPara(paras[1], 1, << >>, 0, cols - 1))
       \o WrapParas_NarrowBudget(Tail(paras), cols)

\* for para in text.split("\n"): an empty paragraph gives one empty line
RECURSIVE WrapParas(_, _)
WrapParas(paras, cols) ==
  IF Len(paras) = 0 THEN << >>
  ELSE (IF paras[1] = << >> THEN << << >> >> ELSE WrapPara(paras[1], 1, << >>, 0, cols))
       \o WrapParas(Tail(paras), cols)

wrap_text_to_cols(text, cols) ==
  LET t1 == Replace(text, << "<", "b", "r", ">" >>, << "\n" >>)
      t2 == Replace(t1, << "\\", "\\" >>, << "\n" >>)
      t3 == SubTrailingBackslash(t2)
  IN  WrapParas(Split(t3, "\n"), cols)

(* ----------------------------------------------------------------------- *)
(* Block Parser: parse_markdown                                            *)
(* ----------------------------------------------------------------------- *)

\* number of leading whitespace characters of s from position i
LeadWs(s, i) == WsRunLen(s, i)

IsDigit(ch) ==
  LET o == ord(ch) IN (48 <= o /\ o <= 57) \/ (65296 <= o /\ o <= 65305)

RECURSIVE DigitRunLen(_, _)
DigitRunLen(s, i) == IF i <= Len(s) /\ IsDigit(s[i]) THEN 1 + DigitRunLen(s, i + 1) ELSE 0

\* H2_RE = ^\s*(?:[#U+FF03]{2}|[0-9U+FF10-U+FF19]+[.U+FF0E)])\s* ; length of
\* the match at the start of the line, -1 when the line does not match
H2MatchLen(line) ==
  LET a == LeadWs(line, 1)
      d == DigitRunLen(line, a + 1)
  IN  IF /\ a + 2 <= Len(line)
         /\ line[a + 1] \in {"#", "U+FF03"}
         /\ line[a + 2] \in {"#", "U+FF03"}
      THEN a + 2 + LeadWs(line, a + 3)
      ELSE IF /\ d >= 1
              /\ a + d + 1 <= Len(line)
              /\ line[a + d + 1] \in {".", "U+FF0E", ")"}
           THEN a + d + 1 + LeadWs(line, a + d + 2)
           ELSE -1

\* LI_RE = ^\s*(?:[-*U+FF0D U+FF0A U+30FB U+2022])\s*(.*)$ on a line
LiMatches(line) ==
  LET a == LeadWs(line, 1)
  IN  a + 1 <= Len(line) /\ line[a + 1] \in {"-", "*", "U+FF0D", "U+FF0A", "U+30FB", "U+2022"}

\* group(1) of LI_RE on a matching line
LiGroup1(line) ==
  LET a == LeadWs(line, 1)
      b == LeadWs(line, a + 2)
  IN  SubSeq(line, a + 2 + b, Len(line))

Block(type, text) == [type |-> type, text |-> text]

\* the paragraph branch stops at the first blank line after i, or at the end
ParaEnd(lines, i) ==
  LET stops == {j \in (i + 1)..Len(lines) : strip(lines[j]) = << >>}
  IN  IF stops = {} THEN Len(lines) + 1 ELSE CHOOSE j \in stops : \A k \in stops : j <= k

\* loop iteration that takes every line matching LI_RE as a list item
ParseIter_NoGuard(lines, i, marker) ==
  LET line == lines[i]
  IN  IF strip(line) = marker
      THEN [add |-> << Block("pagebreak", << >>) >>, next |-> i + 1]
      ELSE IF H2MatchLen(line) >= 0
      THEN [add |-> << Block("h2", SubSeq(line, H2MatchLen(line) + 1, Len(line))) >>,
            next |-> i + 1]
      ELSE IF LiMatches(line)
      THEN [add |-> << Block("li", << "U+30FB" >> \o rstrip(LiGroup1(line))) >>,
            next |-> i + 1]
      ELSE LET j    == ParaEnd(lines, i)
               text == rstrip(Join(SubSeq(lines, i, j - 1), << "\n" >>))
           IN  IF j <= Len(lines)
               THEN [add |-> << Block("p", text), Block("p", << >>) >>, next |-> j + 1]
               ELSE [add |-> << Block("p", text) >>, next |-> j]

\* one iteration of the while loop of parse_markdown at line i (1-based):
\* the blocks it appends and the value of i after it
ParseIter(lines, i, pagebreak_marker) ==
  LET line == lines[i]
  IN  IF strip(line) = pagebreak_marker
      THEN [add |-> << Block("pagebreak", << >>) >>, next |-> i + 1]
      ELSE IF H2MatchLen(line) >= 0
      THEN [add |-> << Block("h2", SubSeq(line, H2MatchLen(line) + 1, Len(line))) >>,
            next |-> i + 1]
      ELSE IF LiMatches(line) /\ LiGroup1(line) # << >>
      THEN [add |-> << Block("li", << "U+30FB" >> \o rstrip(LiGroup1(line))) >>,
            next |-> i + 1]
      ELSE LET j    == ParaEnd(lines, i)
               text == rstrip(Join(SubSeq(lines, i, j - 1), << "\n" >>))
           IN  IF j <= Len(lines)
               THEN [add |-> << Block("p", text), Block("p", << >>) >>, next |-> j + 1]
               ELSE [add |-> << Block("p", text) >>, next |-> j]

\* src.replace("\r\n","\n").replace("\r","\n").split("\n")
SourceLines(src) ==
  Split(Replace(Replace(src, << "\r", "\n" >>, << "\n" >>), << "\r" >>, << "\n" >>), "\n")

RECURSIVE ParseFrom(_, _, _)
ParseFrom(lines, i, pagebreak_marker) ==
  IF i > Len(lines) THEN << >>
  ELSE LET it == ParseIter(lines, i, pagebreak_marker)
       IN  it.add \o ParseFrom(lines, it.next, pagebreak_marker)

parse_markdown(src, pagebreak_marker) == ParseFrom(SourceLines(src), 1, pagebreak_marker)

\* a text written as a sequence of lines, joined by line feeds
Text(ls) == Join(ls, << "\n" >>)

\* the default of the --force_newpage_marker option
DefaultMarker == << "\\", "n", "e", "w", "p", "a", "g", "e" >>

(* ----------------------------------------------------------------------- *)
(* Bounds and inputs                                                      *)
(* ----------------------------------------------------------------------- *)

\* longest text handed to the line wrapper in the wrapper specification
MaxLen == 4
\* largest column budget
MaxCols == 2
\* largest lines-per-page value
MaxLp == 2
\* most source lines of a generated source document
MaxSrcLines == 2
\* most page layers beyond p2 already in the document before the run
MaxExtraLayers == 1

\* the lines generated source documents are made of
LinePool ==
  { << "A", "U+5168", " ", "B" >>,
    << "#", "#", " ", "H", " ", " ", "I" >>,
    DefaultMarker }

RECURSIVE LineSeqs(_)
LineSeqs(n) ==
  IF n = 0 THEN { << >> }
  ELSE LineSeqs(n - 1) \cup {Append(ls, l) : ls \in {x \in LineSeqs(n - 1) : Len(x) = n - 1}, l \in LinePool}

\* the source "## Title\n\nBody text\n- item one\n- item two\n"
ScenarioSrc ==
  Text(<< << "#", "#", " ", "T", "i", "t", "l", "e" >>,
          << >>,
          << "B", "o", "d", "y", " ", "t", "e", "x", "t" >>,
          << "-", " ", "i", "t", "e", "m", " ", "o", "n", "e" >>,
          << "-", " ", "i", "t", "e", "m", " ", "t", "w", "o" >>,
          << >> >>)

\* lines_per_page = 2 and columns_per_line = 10 on all pages
ScenarioSettings ==
  [lines_per_page |-> [k \in {"default"} |-> 2], cols_per_line |-> [k \in {"default"} |-> 10]]

\* further sources: a list item; a paragraph, a blank line and a list item; two
\* page breaks in a row, then text; text with a page break on the next line;
\* a page break after a blank line, at the end of the text; three page breaks
\* in a row, then text
ExtraSources ==
  { Text(<< << "-", " ", "x" >> >>),
    Text(<< << "A" >>, << >>, << "-", " ", "x" >> >>),
    Text(<< DefaultMarker, DefaultMarker, << "A", "B" >> >>),
    Text(<< << "A", "B" >>, DefaultMarker, << "C" >> >>),
    Text(<< << "A" >>, << >>, DefaultMarker, << >> >>),
    Text(<< DefaultMarker, DefaultMarker, DefaultMarker, << "A", "U+5168", " ", "B" >> >>) }

Sources == {Text(ls) : ls \in LineSeqs(MaxSrcLines)} \cup ExtraSources

\* settings.json contents: an entry for p1 and a default, as in the built-in
\* settings; the first page is the widest
SettingsSet ==
  { [lines_per_page |-> [k \in {"p1", "default"} |-> IF k = "p1" THEN a ELSE b],
     cols_per_line  |-> [k \in {"p1", "default"} |-> IF k = "p1" THEN MaxCols ELSE d]] :
        a \in 1..MaxLp, b \in 1..MaxLp, d \in 1..MaxCols }

\* state of the settings source: no file, a file json.loads rejects, or a file
\* that parses to the given object
Absent == [kind |-> "absent"]

Unparsable == [kind |-> "unparsable"]

Json(v) == [kind |-> "json", value |-> v]

\* the JSON object {}
EmptyMap == [k \in {} |-> 0]

\* parsed settings that lack a map, or entries of a map
PartialSettings ==
  { EmptyMap,
    [lines_per_page |-> [k \in {"default"} |-> 1]],
    [lines_per_page |-> EmptyMap, cols_per_line |-> EmptyMap],
    [lines_per_page |-> [k \in {"default"} |-> 1], cols_per_line |-> [k \in {"p1"} |-> 2]] }

\* parsed settings with a column budget below 1
ZeroColsSettings ==
  { [lines_per_page |-> [k \in {"p1", "default"} |-> IF k = "p1" THEN 1 ELSE 2],
     cols_per_line  |-> [k \in {"p1", "default"} |-> IF k = "p1" THEN c[1] ELSE c[2]]] :
        c \in { << 0, 0 >>, << 2, 0 >>, << 0, 2 >> } }

SettingsFiles ==
  {Absent, Unparsable} \cup {Json(v) : v \in PartialSettings \cup ZeroColsSettings}

\* f"p{n}"
PageLabel(n) == "p" \o ToString(n)

\* a page layer of the document: its inkscape:label and the text element in it
\* that carries the same label (0 when there is none)
Layer(label, text) == [label |-> label, text |-> text]

\* text content a page anchor holds before the run
OldContent == << << "o", "l", "d" >> >>

\* documents before the run: layers p1, p2 and k further page layers, each with
\* its text anchor (element n belongs to layer p{n}); in a second form the last
\* of the further layers has no text anchor
RECURSIVE DocWith(_)
DocWith(k) == IF k = 0 THEN << >> ELSE Append(DocWith(k - 1), Layer(PageLabel(k), k))

DocSet ==
  {DocWith(k) : k \in 2..(2 + MaxExtraLayers)}
    \cup {Append(DocWith(k - 1), Layer(PageLabel(k), 0)) : k \in 3..(2 + MaxExtraLayers)}

\* documents that lack layer p1 or p2, or the text anchor of one of them
BadDocs ==
  { << >>,
    << Layer("p1", 1) >>,
    << Layer("p2", 2) >>,
    << Layer("p1", 0), Layer("p2", 2) >>,
    << Layer("p1", 1), Layer("p2", 0) >>,
    << Layer("p1", 1), Layer("p3", 3) >> }

\* one run: the text of the source document (empty when the file is missing),
\* the settings source, whether the source document exists, the document
Input(s, f, m, d) == [src |-> s, file |-> f, md |-> m, doc |-> d]

RunInputs ==
  {Input(s, Json(st), TRUE, d) : s \in Sources, st \in SettingsSet, d \in DocSet}
    \cup {Input(ScenarioSrc, Json(ScenarioSettings), TRUE, d) : d \in DocSet}
    \cup {Input(s, f, TRUE, DocWith(2)) : s \in ExtraSources, f \in SettingsFiles}
    \cup {Input(ScenarioSrc, Json(ScenarioSettings), TRUE, d) : d \in BadDocs}
    \cup {Input(<< >>, Json(ScenarioSettings), FALSE, d) : d \in BadDocs \cup DocSet}

(* ----------------------------------------------------------------------- *)
(* State                                                                   *)
(* ----------------------------------------------------------------------- *)

VARIABLES
  pc,                \* position of the run
  src,               \* text of the source document
  md_exists,         \* whether the source document exists
  settings_file,     \* state of the settings source
  settings,          \* effect(): the result of read_settings
  indent_fullwidth,  \* option --indent_fullwidth
  doc,               \* page layers of the document, in document order
  content,           \* lines held by each text element (attached or not)
  phys,              \* number of inkscape:page elements
  pages,             \* effect(): the pages list of (label, text element)
  styled,            \* text elements reset_box_style was applied to
  blocks,            \* effect(): parsed blocks
  e_page_idx, e_used, e_bi, e_li, e_lines,   \* locals of _estimate_required_pages
  required_pages,    \* 0 until the estimation has returned
  prov_n,            \* loop variable of ensure_pages_horizontal_from_p3
  page_idx, used, bi, li, lines,             \* locals of the commit loop
  est_inc, com_inc,  \* history: (block, line) positions where each pass advanced the page
  placed,            \* history: every add_line_text call of the commit loop
  handle,            \* history: the element the first get_page(i) call returned
  wrapped,           \* history: the wrapped lines of the blocks the commit loop has started
  provisioned,       \* history: the n for which ensure_page_horizontal made a layer
  s_doc, s_content, s_pages,                 \* single-pass variant: document, pages list
  s_page_idx, s_used, s_bi, s_li, s_lines,   \* single-pass variant: locals of its loop
  s_placed,          \* history: every add_line_text call of the single-pass variant
  w_text, w_cols, w_out,   \* wrapper specification: input and result
  p_lines, p_i             \* parser specification: lines and loop index

singlevars ==
  << s_doc, s_content, s_pages, s_page_idx, s_used, s_bi, s_li, s_lines, s_placed >>

runvars ==
  << md_exists, settings_file, settings, indent_fullwidth, doc, content, phys, pages, styled,
     e_page_idx, e_used, e_bi, e_li, e_lines, required_pages, prov_n,
     page_idx, used, bi, li, lines, est_inc, com_inc, placed, handle, wrapped,
     provisioned, singlevars >>

wrapvars == << w_text, w_cols, w_out >>

parsevars == << p_lines, p_i >>

vars == << pc, src, blocks, runvars, wrapvars, parsevars, singlevars >>

\* the --force_newpage_marker option
pagebreak_marker == DefaultMarker

(* ----------------------------------------------------------------------- *)
(* Document access                                                         *)
(* ----------------------------------------------------------------------- *)

\* index in d of the first layer with the label, 0 when there is none
find_layer_by_label(d, label) ==
  LET hit == {i \in 1..Len(d) : d[i].label = label}
  IN  IF hit = {} THEN 0 ELSE CHOOSE i \in hit : \A j \in hit : i <= j

\* the text element labelled like the layer inside layer i of d, 0 when none
find_text_by_label(d, i) == d[i].text

\* a text element is in the document when a layer of the document holds it
Attached(d, el) == el # 0 /\ \E i \in 1..Len(d) : d[i].text = el

\* _delete_layer_if_exists
RemoveAt(d, i) == SubSeq(d, 1, i - 1) \o SubSeq(d, i + 1, Len(d))

_delete_layer_if_exists(d, label) ==
  LET i == find_layer_by_label(d, label) IN IF i = 0 THEN d ELSE RemoveAt(d, i)

\* a fresh element identity
NewId(c) == 1 + Cardinality(DOMAIN c)

\* The document state the page functions read and write
Dom(d, c, ph, pg) == [doc |-> d, content |-> c, phys |-> ph, pages |-> pg]

\* clone_layer_as(doc, layer_p2, new_lab, "p2", new_lab): a serialised copy of
\* layer p2 as it is now, lines already in its text included, appended to the
\* document under the new label
clone_layer_as(D, new_lab) ==
  LET p2   == D.doc[find_layer_by_label(D.doc, "p2")]
      newt == NewId(D.content)
  IN  [D EXCEPT !.doc = Append(D.doc, Layer(new_lab, newt)),
                !.content = [e \in DOMAIN D.content \cup {newt} |->
                               IF e = newt THEN D.content[p2.text] ELSE D.content[e]]]

\* max(phys, idx + 1): the while loop appending inkscape:page elements
EnsurePhys(ph, idx) == IF ph <= idx THEN idx + 1 ELSE ph

\* get_page that clones layer p2 whenever the layer lookup finds no text
get_page_AlwaysClone(idx, D) ==
  LET pre_lab   == PageLabel(idx + 1)
      pre_layer == find_layer_by_label(D.doc, pre_lab)
      pre_text  == IF pre_layer = 0 THEN 0 ELSE find_text_by_label(D.doc, pre_layer)
  IN  IF pre_text # 0
      THEN [el |-> pre_text,
            D  |-> IF idx >= Len(D.pages)
                   THEN [D EXCEPT !.pages = Append(D.pages, << pre_lab, pre_text >>)]
                   ELSE D]
      ELSE LET D2 == clone_layer_as([D EXCEPT !.phys = EnsurePhys(D.phys, idx)], pre_lab)
               nt == D2.doc[Len(D2.doc)].text
           IN  [el |-> nt,
                D  |-> [D2 EXCEPT !.pages = Append(D2.pages, << pre_lab, nt >>)]]

\* get_page(idx): the element returned and the document state after the call
get_page(idx, D) ==
  LET pre_lab   == PageLabel(idx + 1)
      pre_layer == find_layer_by_label(D.doc, pre_lab)
      pre_text  == IF pre_layer = 0 THEN 0 ELSE find_text_by_label(D.doc, pre_layer)
  IN  IF pre_text # 0
      THEN [el |-> pre_text,
            D  |-> IF idx >= Len(D.pages)
                   THEN [D EXCEPT !.pages = Append(D.pages, << pre_lab, pre_text >>)]
                   ELSE D]
      ELSE LET D1 == [D EXCEPT !.phys = EnsurePhys(D.phys, idx)]
           IN  IF idx < Len(D1.pages)
               THEN [el |-> D1.pages[idx + 1][2], D |-> D1]
               ELSE LET D2 == clone_layer_as(D1, pre_lab)
                        nt == D2.doc[Len(D2.doc)].text
                    IN  [el |-> nt,
                         D  |-> [D2 EXCEPT !.pages = Append(D2.pages, << pre_lab, nt >>)]]

\* add_line_text(el, line, ...): one more line element in el.  The entry is the
\* line handed over; how the line is written inside its element is not modelled
add_line_text(D, el, line) ==
  [D EXCEPT !.content = [D.content EXCEPT ![el] = Append(@, line)]]

\* clear_text on every element of the pages list
clear_text(c, pg) ==
  [e \in DOMAIN c |-> IF \E i \in 1..Len(pg) : pg[i][2] = e THEN << >> ELSE c[e]]

\* the pages list built at the start of effect(): p1, p2, then p3, p4, ... while
\* the layer and its text exist
RECURSIVE CollectPages(_, _)
CollectPages(d, n) ==
  LET i == find_layer_by_label(d, PageLabel(n))
  IN  IF i = 0 \/ find_text_by_label(d, i) = 0 THEN << >>
      ELSE << << PageLabel(n), find_text_by_label(d, i) >> >> \o CollectPages(d, n + 1)

\* ensure_page_horizontal(n) up to the format lookup: the old layer p{n} is
\* deleted and an empty layer p{n} appended; the children of f2 copied into it
\* hold no text labelled p{n}
ensure_page_horizontal(d, n) ==
  IF n < 3 THEN d ELSE Append(_delete_layer_if_exists(d, PageLabel(n)), Layer(PageLabel(n), 0))

\* range(3, max(3, total_pages)): the last page is left out
ProvisionRange_Short(total_pages) == 3..((IF total_pages > 3 THEN total_pages ELSE 3) - 1)

\* range(3, max(3, total_pages + 1))
ProvisionRange(total_pages) == 3..((IF total_pages + 1 > 3 THEN total_pages + 1 ELSE 3) - 1)

(* ----------------------------------------------------------------------- *)
(* Capacity resolver                                                       *)
(* ----------------------------------------------------------------------- *)

\* the settings read_settings returns when the file is missing or not JSON
BuiltinSettings ==
  [lines_per_page |-> [k \in {"p1", "default"} |-> IF k = "p1" THEN 21 ELSE 30],
   cols_per_line  |-> [k \in {"p1", "default"} |-> IF k = "p1" THEN 86 ELSE 48]]

\* read_settings(path); the style_defaults entry is left out
read_settings(f) == IF f.kind = "json" THEN f.value ELSE BuiltinSettings

\* lines 507-510 raise no KeyError: both maps are in the settings
HasMaps(st) == "lines_per_page" \in DOMAIN st /\ "cols_per_line" \in DOMAIN st

\* dict.get(key, default)
Get(m, key, default) == IF key \in DOMAIN m THEN m[key] ELSE default

\* limits(idx) -> (lines per page, columns per line)
limits(st, idx) ==
  LET page_lab == PageLabel(idx + 1)
  IN  << Get(st.lines_per_page, page_lab, Get(st.lines_per_page, "default", 30)),
         Get(st.cols_per_line, page_lab, Get(st.cols_per_line, "default", 48)) >>

\* wrap_text_to_cols(...) or [""]
OrBlank(ls) == IF ls = << >> THEN << << >> >> ELSE ls

\* overflow test that lets one line too many onto a page
EstOverflow_Strict(u, m) == u > m

\* line 598: the estimation pass moves to the next page
EstOverflow(u, m) == u >= m

CommitOverflow_Strict(u, m) == u > m

\* line 626: the commit pass moves to the next page
CommitOverflow(u, m) == u >= m

\* lines 617-621: heading lines lose leading spaces; with the indent option the
\* non-empty lines of other blocks get a full-width space in front
Decorate(type, ls, indent) ==
  [k \in 1..Len(ls) |->
     IF type = "h2" THEN lstripChars(ls[k], {FULLWIDTH_SPACE, " "})
     ELSE IF indent /\ ls[k] # << >> /\ ls[k][1] # FULLWIDTH_SPACE
          THEN << FULLWIDTH_SPACE >> \o ls[k]
          ELSE ls[k]]

(* ----------------------------------------------------------------------- *)
(* The run of MdFill.effect (two-pass variant)                             *)
(* ----------------------------------------------------------------------- *)

\* values of the variables a specification does not use
WrapIdle == w_text = << >> /\ w_cols = 0 /\ w_out = << >>

ParseIdle == p_lines = << >> /\ p_i = 0

\* the single-pass variant has not started
SingleIdle ==
  /\ s_pages = << >> /\ s_page_idx = 0 /\ s_used = 0 /\ s_bi = 0 /\ s_li = 0
  /\ s_lines = << >> /\ s_placed = << >>

RunIdle ==
  /\ md_exists = TRUE /\ settings_file = Absent
  /\ settings = ScenarioSettings /\ indent_fullwidth = FALSE
  /\ doc = << >> /\ content = << >> /\ phys = 0 /\ pages = << >> /\ styled = {}
  /\ e_page_idx = 0 /\ e_used = 0 /\ e_bi = 0 /\ e_li = 0 /\ e_lines = << >>
  /\ required_pages = 0 /\ prov_n = 0
  /\ page_idx = 0 /\ used = 0 /\ bi = 0 /\ li = 0 /\ lines = << >>
  /\ est_inc = {} /\ com_inc = {} /\ placed = << >> /\ handle = << >>
  /\ wrapped = << >> /\ provisioned = {}
  /\ s_doc = << >> /\ s_content = << >> /\ SingleIdle

\* the text elements before read_settings is called
NotRead == [read |-> FALSE]

\* the text elements of a document before the run
ElementsOf(d) == {d[i].text : i \in 1..Len(d)} \ {0}

Init ==
  /\ pc = "start"
  /\ \E inp \in RunInputs :
       /\ src = inp.src /\ md_exists = inp.md /\ settings_file = inp.file
       /\ doc = inp.doc
  /\ settings = NotRead
  /\ indent_fullwidth \in BOOLEAN
  /\ content = [e \in ElementsOf(doc) |-> OldContent]
  /\ phys \in {0, 1}
  /\ pages = << >> /\ blocks = << >> /\ styled = {}
  /\ e_page_idx = 0 /\ e_used = 0 /\ e_bi = 0 /\ e_li = 0 /\ e_lines = << >>
  /\ required_pages = 0 /\ prov_n = 0
  /\ page_idx = 0 /\ used = 0 /\ bi = 0 /\ li = 0 /\ lines = << >>
  /\ est_inc = {} /\ com_inc = {} /\ placed = << >> /\ handle = << >>
  /\ wrapped = << >> /\ provisioned = {}
  /\ s_doc = doc /\ s_content = content /\ SingleIdle
  /\ WrapIdle /\ ParseIdle

\* checks that pass whenever the source document and both page layers exist
PreconditionsOk_LayersOnly(md, d) ==
  /\ md
  /\ find_layer_by_label(d, "p1") # 0 /\ find_layer_by_label(d, "p2") # 0

\* lines 471-484: the source document exists, layers p1 and p2 exist and each
\* holds the text labelled like it
PreconditionsOk(md, d) ==
  /\ md
  /\ find_layer_by_label(d, "p1") # 0 /\ find_layer_by_label(d, "p2") # 0
  /\ find_text_by_label(d, find_layer_by_label(d, "p1")) # 0
  /\ find_text_by_label(d, find_layer_by_label(d, "p2")) # 0

\* the elements of the pages list
PageElements(pg) == {pg[i][2] : i \in 1..Len(pg)}

\* effect() raises AbortExtension at line 472, 480 or 484; _ensure_pages has
\* run, and read_settings too unless the source document is missing
StartAbort ==
  /\ pc = "start"
  /\ ~PreconditionsOk(md_exists, doc)
  /\ phys' = (IF phys = 0 THEN 1 ELSE phys)
  /\ settings' = (IF md_exists THEN read_settings(settings_file) ELSE settings)
  /\ pc' = "abort"
  /\ UNCHANGED << src, blocks, md_exists, settings_file, indent_fullwidth, doc,
                  content, pages, styled, e_page_idx, e_used, e_bi, e_li, e_lines,
                  required_pages, prov_n, page_idx, used, bi, li, lines, est_inc,
                  com_inc, placed, handle, wrapped, provisioned, wrapvars, parsevars,
                  singlevars >>

\* effect() dies of the KeyError lines 507-510 raise when the parsed settings
\* lack a map; the pages list was built and its elements cleared and restyled
StartKeyError ==
  /\ pc = "start"
  /\ PreconditionsOk(md_exists, doc)
  /\ ~HasMaps(read_settings(settings_file))
  /\ phys' = (IF phys = 0 THEN 1 ELSE phys)
  /\ settings' = read_settings(settings_file)
  /\ pages' = CollectPages(doc, 1)
  /\ content' = clear_text(content, pages')
  /\ styled' = PageElements(pages')
  /\ pc' = "error"
  /\ UNCHANGED << src, blocks, md_exists, settings_file, indent_fullwidth, doc,
                  e_page_idx, e_used, e_bi, e_li, e_lines,
                  required_pages, prov_n, page_idx, used, bi, li, lines, est_inc,
                  com_inc, placed, handle, wrapped, provisioned, wrapvars, parsevars,
                  singlevars >>

\* effect() up to the call of _estimate_required_pages: _ensure_pages,
\* read_settings, the pages list, clear_text and reset_box_style on its
\* elements, parse_markdown
Start ==
  /\ pc = "start"
  /\ PreconditionsOk(md_exists, doc)
  /\ HasMaps(read_settings(settings_file))
  /\ phys' = (IF phys = 0 THEN 1 ELSE phys)
  /\ settings' = read_settings(settings_file)
  /\ pages' = CollectPages(doc, 1)
  /\ content' = clear_text(content, pages')
  /\ styled' = PageElements(pages')
  /\ blocks' = parse_markdown(src, pagebreak_marker)
  /\ e_page_idx' = 0 /\ e_used' = 0 /\ e_bi' = 1 /\ e_li' = 0 /\ e_lines' = << >>
  /\ pc' = "estimate"
  /\ UNCHANGED << src, md_exists, settings_file, indent_fullwidth, doc, required_pages,
                  prov_n, page_idx, used, bi, li, lines, est_inc, com_inc, placed, handle,
                  wrapped, provisioned, wrapvars, parsevars, singlevars >>

\* a pagebreak block that leaves the line count of the page as it is
EstPagebreak_KeepUsed ==
  /\ pc = "estimate" /\ e_bi <= Len(blocks)
  /\ blocks[e_bi].type = "pagebreak"
  /\ e_page_idx' = e_page_idx + 1
  /\ e_bi' = e_bi + 1
  /\ est_inc' = est_inc \cup { << e_bi, 0 >> }
  /\ UNCHANGED << pc, src, blocks, md_exists, settings_file, styled,
                  settings, indent_fullwidth, doc, content, phys,
                  pages, e_used, e_li, e_lines, required_pages, prov_n, page_idx, used, bi, li,
                  lines, com_inc, placed, handle, wrapped, provisioned, wrapvars,
                  parsevars, singlevars >>

\* _estimate_required_pages: a pagebreak block
EstPagebreak ==
  /\ pc = "estimate" /\ e_bi <= Len(blocks)
  /\ blocks[e_bi].type = "pagebreak"
  /\ e_page_idx' = e_page_idx + 1
  /\ e_used' = 0
  /\ e_bi' = e_bi + 1
  /\ est_inc' = est_inc \cup { << e_bi, 0 >> }
  /\ UNCHANGED << pc, src, blocks, md_exists, settings_file, styled,
                  settings, indent_fullwidth, doc, content, phys,
                  pages, e_li, e_lines, required_pages, prov_n, page_idx, used, bi, li,
                  lines, com_inc, placed, handle, wrapped, provisioned, wrapvars,
                  parsevars, singlevars >>

\* _estimate_required_pages: one iteration of "for _ in lines"; the lines of the
\* block are computed on entering it
EstLine ==
  /\ pc = "estimate" /\ e_bi <= Len(blocks)
  /\ blocks[e_bi].type # "pagebreak"
  /\ LET ls   == IF e_li = 0
                 THEN OrBlank(wrap_text_to_cols(blocks[e_bi].text, limits(settings, e_page_idx)[2]))
                 ELSE e_lines
         m    == limits(settings, e_page_idx)[1]
         over == EstOverflow(e_used, m)
     IN  /\ e_lines' = ls
         /\ e_page_idx' = (IF over THEN e_page_idx + 1 ELSE e_page_idx)
         /\ e_used' = (IF over THEN 0 ELSE e_used) + 1
         /\ est_inc' = (IF over THEN est_inc \cup { << e_bi, e_li + 1 >> } ELSE est_inc)
         /\ IF e_li + 1 < Len(ls)
            THEN e_li' = e_li + 1 /\ e_bi' = e_bi
            ELSE e_li' = 0 /\ e_bi' = e_bi + 1
  /\ UNCHANGED << pc, src, blocks, md_exists, settings_file, styled,
                  settings, indent_fullwidth, doc, content, phys,
                  pages, required_pages, prov_n, page_idx, used, bi, li, lines, com_inc,
                  placed, handle, wrapped, provisioned, wrapvars, parsevars, singlevars >>

\* return page_idx + 1; effect() then enters ensure_pages_horizontal_from_p3
EstReturn ==
  /\ pc = "estimate" /\ e_bi > Len(blocks)
  /\ required_pages' = e_page_idx + 1
  /\ prov_n' = 3
  /\ pc' = "provision"
  /\ UNCHANGED << src, blocks, md_exists, settings_file, styled,
                  settings, indent_fullwidth, doc, content, phys, pages,
                  e_page_idx, e_used, e_bi, e_li, e_lines, page_idx, used, bi, li, lines,
                  est_inc, com_inc, placed, handle, wrapped, provisioned, wrapvars,
                  parsevars, singlevars >>

\* ensure_page_horizontal(n) for the next n of the range, format layer found
ProvisionPage ==
  /\ pc = "provision" /\ prov_n \in ProvisionRange(required_pages)
  /\ doc' = ensure_page_horizontal(doc, prov_n)
  /\ provisioned' = provisioned \cup {prov_n}
  /\ prov_n' = prov_n + 1
  /\ UNCHANGED << pc, src, blocks, md_exists, settings_file, styled,
                  settings, indent_fullwidth, content, phys, pages,
                  e_page_idx, e_used, e_bi, e_li, e_lines, required_pages, page_idx, used,
                  bi, li, lines, est_inc, com_inc, placed, handle, wrapped, wrapvars,
                  parsevars, singlevars >>

\* ensure_page_horizontal(n) raises AbortExtension: the document has no format
\* layer or no f2 in it, which the first call finds out after the old layer
\* was deleted and the new one appended
ProvisionAbort ==
  /\ pc = "provision" /\ prov_n \in ProvisionRange(required_pages)
  /\ prov_n = 3
  /\ doc' = ensure_page_horizontal(doc, prov_n)
  /\ pc' = "abort"
  /\ UNCHANGED << src, blocks, md_exists, settings_file, styled,
                  settings, indent_fullwidth, content, phys, pages,
                  e_page_idx, e_used, e_bi, e_li, e_lines, required_pages, prov_n, page_idx,
                  used, bi, li, lines, est_inc, com_inc, placed, handle, wrapped,
                  provisioned, wrapvars, parsevars, singlevars >>

\* the range is exhausted: page_idx=0; used=0 and the commit loop starts
ProvisionDone ==
  /\ pc = "provision" /\ prov_n \notin ProvisionRange(required_pages)
  /\ page_idx' = 0 /\ used' = 0 /\ bi' = 1 /\ li' = 0 /\ lines' = << >>
  /\ pc' = "commit"
  /\ UNCHANGED << src, blocks, md_exists, settings_file, styled,
                  settings, indent_fullwidth, doc, content, phys, pages,
                  e_page_idx, e_used, e_bi, e_li, e_lines, required_pages, prov_n, est_inc,
                  com_inc, placed, handle, wrapped, provisioned, wrapvars, parsevars,
                  singlevars >>

\* the first element returned for a page index is remembered
Remember(h, idx, el) ==
  IF idx \in DOMAIN h THEN h ELSE [k \in DOMAIN h \cup {idx} |-> IF k = idx THEN el ELSE h[k]]

\* a pagebreak block that moves the cursor without a get_page call
CommitPagebreak_NoTouch ==
  /\ pc = "commit" /\ bi <= Len(blocks)
  /\ blocks[bi].type = "pagebreak"
  /\ page_idx' = page_idx + 1
  /\ used' = 0
  /\ bi' = bi + 1
  /\ com_inc' = com_inc \cup { << bi, 0 >> }
  /\ UNCHANGED << pc, src, blocks, md_exists, settings_file, styled,
                  settings, indent_fullwidth, doc, content, phys, pages, handle,
                  e_page_idx, e_used, e_bi, e_li, e_lines, required_pages, prov_n,
                  li, lines, est_inc, placed, wrapped, provisioned, wrapvars,
                  parsevars, singlevars >>

\* commit loop: a pagebreak block
CommitPagebreak ==
  /\ pc = "commit" /\ bi <= Len(blocks)
  /\ blocks[bi].type = "pagebreak"
  /\ LET r == get_page(page_idx + 1, Dom(doc, content, phys, pages))
     IN  /\ doc' = r.D.doc /\ content' = r.D.content /\ phys' = r.D.phys /\ pages' = r.D.pages
         /\ handle' = Remember(handle, page_idx + 1, r.el)
  /\ page_idx' = page_idx + 1
  /\ used' = 0
  /\ bi' = bi + 1
  /\ com_inc' = com_inc \cup { << bi, 0 >> }
  /\ UNCHANGED << pc, src, blocks, md_exists, settings_file, styled,
                  settings, indent_fullwidth, e_page_idx, e_used,
                  e_bi, e_li, e_lines, required_pages, prov_n, li, lines, est_inc, placed,
                  wrapped, provisioned, wrapvars, parsevars, singlevars >>

\* commit loop: one iteration of "while i < len(lines)"; the lines of the block
\* are computed and decorated on entering it
CommitLine ==
  /\ pc = "commit" /\ bi <= Len(blocks)
  /\ blocks[bi].type # "pagebreak"
  /\ LET raw  == OrBlank(wrap_text_to_cols(blocks[bi].text, limits(settings, page_idx)[2]))
         ls   == IF li = 0 THEN Decorate(blocks[bi].type, raw, indent_fullwidth) ELSE lines
         m    == limits(settings, page_idx)[1]
         over == CommitOverflow(used, m)
         np   == IF over THEN page_idx + 1 ELSE page_idx
         D0   == Dom(doc, content, phys, pages)
         r1   == IF over THEN get_page(np, D0) ELSE [el |-> 0, D |-> D0]
         r2   == get_page(np, r1.D)
         D3   == add_line_text(r2.D, r2.el, ls[li + 1])
     IN  /\ lines' = ls
         /\ wrapped' = (IF li = 0 THEN wrapped \o raw ELSE wrapped)
         /\ page_idx' = np
         /\ used' = (IF over THEN 0 ELSE used) + 1
         /\ com_inc' = (IF over THEN com_inc \cup { << bi, li + 1 >> } ELSE com_inc)
         /\ doc' = D3.doc /\ content' = D3.content /\ phys' = D3.phys /\ pages' = D3.pages
         /\ handle' = Remember(IF over THEN Remember(handle, np, r1.el) ELSE handle, np, r2.el)
         /\ placed' = Append(placed, [page |-> np, el |-> r2.el, line |-> ls[li + 1],
                                      overflow |-> over])
         /\ IF li + 1 < Len(ls)
            THEN li' = li + 1 /\ bi' = bi
            ELSE li' = 0 /\ bi' = bi + 1
  /\ UNCHANGED << pc, src, blocks, md_exists, settings_file, styled,
                  settings, indent_fullwidth, e_page_idx, e_used,
                  e_bi, e_li, e_lines, required_pages, prov_n, est_inc, provisioned,
                  wrapvars, parsevars, singlevars >>

\* the commit loop is over; the log is written and effect() returns
Finish ==
  /\ pc = "commit" /\ bi > Len(blocks)
  /\ pc' = "done"
  /\ UNCHANGED << src, blocks, runvars, wrapvars, parsevars, singlevars >>

Next ==
  \/ StartAbort
  \/ StartKeyError
  \/ Start
  \/ EstPagebreak
  \/ EstLine
  \/ EstReturn
  \/ ProvisionPage
  \/ ProvisionAbort
  \/ ProvisionDone
  \/ CommitPagebreak
  \/ CommitLine
  \/ Finish

Spec == Init /\ [][Next]_vars

(* ----------------------------------------------------------------------- *)
(* The single-pass variant (src/load_txt_to_SVG.py) on the same input      *)
(* ----------------------------------------------------------------------- *)

\* limits(idx) of the single-pass variant: (lp1, cp1) if idx == 0 else (lpn, cpn)
limits_single(st, idx) ==
  IF idx = 0
  THEN << Get(st.lines_per_page, "p1", 13), Get(st.cols_per_line, "p1", 40) >>
  ELSE << Get(st.lines_per_page, "default", 30), Get(st.cols_per_line, "default", 48) >>

\* get_page(idx) of the single-pass variant: the entry of the pages list at
\* idx, else a clone of layer p2 labelled p{idx+1} appended to the list
get_page_single(idx, D) ==
  IF idx < Len(D.pages)
  THEN [el |-> D.pages[idx + 1][2], D |-> D]
  ELSE LET new_lab == PageLabel(idx + 1)
           D2      == clone_layer_as(D, new_lab)
           nt      == D2.doc[Len(D2.doc)].text
       IN  [el |-> nt, D |-> [D2 EXCEPT !.pages = Append(D2.pages, << new_lab, nt >>)]]

\* effect() of the single-pass variant up to its loop, on the document the
\* two-pass run was given and on the blocks the two-pass run parsed
SingleStart ==
  /\ pc = "done"
  /\ s_pages' = CollectPages(s_doc, 1)
  /\ s_content' = clear_text(s_content, s_pages')
  /\ s_page_idx' = 0 /\ s_used' = 0 /\ s_bi' = 1 /\ s_li' = 0 /\ s_lines' = << >>
  /\ pc' = "s_commit"
  /\ UNCHANGED << src, blocks, md_exists, settings_file, styled, settings,
                  indent_fullwidth, doc, content, phys, pages, e_page_idx, e_used, e_bi,
                  e_li, e_lines, required_pages, prov_n, page_idx, used, bi, li, lines,
                  est_inc, com_inc, placed, handle, wrapped, provisioned, s_doc,
                  s_placed, wrapvars, parsevars >>

\* single-pass loop: a pagebreak block (page_idx+=1; used=0; continue)
SinglePagebreak ==
  /\ pc = "s_commit" /\ s_bi <= Len(blocks)
  /\ blocks[s_bi].type = "pagebreak"
  /\ s_page_idx' = s_page_idx + 1
  /\ s_used' = 0
  /\ s_bi' = s_bi + 1
  /\ UNCHANGED << pc, src, blocks, md_exists, settings_file, styled, settings,
                  indent_fullwidth, doc, content, phys, pages, e_page_idx, e_used, e_bi,
                  e_li, e_lines, required_pages, prov_n, page_idx, used, bi, li, lines,
                  est_inc, com_inc, placed, handle, wrapped, provisioned, s_doc,
                  s_content, s_pages, s_li, s_lines, s_placed, wrapvars, parsevars >>

\* single-pass loop: one iteration of "while i < len(lines)"
SingleLine ==
  /\ pc = "s_commit" /\ s_bi <= Len(blocks)
  /\ blocks[s_bi].type # "pagebreak"
  /\ LET ls   == IF s_li = 0
                 THEN OrBlank(wrap_text_to_cols(blocks[s_bi].text,
                                                limits_single(settings, s_page_idx)[2]))
                 ELSE s_lines
         m    == limits_single(settings, s_page_idx)[1]
         over == s_used >= m
         np   == IF over THEN s_page_idx + 1 ELSE s_page_idx
         r    == get_page_single(np, Dom(s_doc, s_content, 0, s_pages))
         D2   == add_line_text(r.D, r.el, ls[s_li + 1])
     IN  /\ s_lines' = ls
         /\ s_page_idx' = np
         /\ s_used' = (IF over THEN 0 ELSE s_used) + 1
         /\ s_doc' = D2.doc /\ s_content' = D2.content /\ s_pages' = D2.pages
         /\ s_placed' = Append(s_placed, [page |-> np, el |-> r.el, line |-> ls[s_li + 1]])
         /\ IF s_li + 1 < Len(ls)
            THEN s_li' = s_li + 1 /\ s_bi' = s_bi
            ELSE s_li' = 0 /\ s_bi' = s_bi + 1
  /\ UNCHANGED << pc, src, blocks, md_exists, settings_file, styled, settings,
                  indent_fullwidth, doc, content, phys, pages, e_page_idx, e_used, e_bi,
                  e_li, e_lines, required_pages, prov_n, page_idx, used, bi, li, lines,
                  est_inc, com_inc, placed, handle, wrapped, provisioned, wrapvars,
                  parsevars >>

\* the loop of the single-pass variant is over
SingleFinish ==
  /\ pc = "s_commit" /\ s_bi > Len(blocks)
  /\ pc' = "s_done"
  /\ UNCHANGED << src, blocks, runvars, wrapvars, parsevars >>

\* the two-pass run, then the single-pass variant
FallbackNext ==
  \/ Next
  \/ SingleStart
  \/ SinglePagebreak
  \/ SingleLine
  \/ SingleFinish

SpecFallback == Init /\ [][FallbackNext]_vars

(* ----------------------------------------------------------------------- *)
(* The line wrapper on its own                                             *)
(* ----------------------------------------------------------------------- *)

\* largest column budget handed to the wrapper in the wrapper specification
MaxWrapCols == 3

WrapAlphabet == {"A", " ", "U+5168", "U+3000", "\\", "\n"}

RECURSIVE TextsUpTo(_)
TextsUpTo(n) ==
  IF n = 0 THEN { << >> }
  ELSE TextsUpTo(n - 1) \cup {Append(t, c) : t \in {x \in TextsUpTo(n - 1) : Len(x) = n - 1}, c \in WrapAlphabet}

\* texts of the scenarios: "ABCDEFGH" at 5 columns, A\\B, A<br>B; further
\* texts with break tokens: two <br> in a row, alone and after a lone backslash
WrapScenarios ==
  { << << "A", "B", "C", "D", "E", "F", "G", "H" >>, 5 >>,
    << << "A", "\\", "\\", "B" >>, 5 >>,
    << << "A", "<", "b", "r", ">", "B" >>, 5 >>,
    << << "A", "<", "b", "r", ">", "<", "b", "r", ">" >>, 5 >>,
    << << "A", "\\", "<", "b", "r", ">", "<", "b", "r", ">" >>, 5 >> }
    \cup { << << "A", "\\", "\\", "B" >>, c >> : c \in 1..MaxWrapCols }

WrapInputs == (TextsUpTo(MaxLen) \X (1..MaxWrapCols)) \cup WrapScenarios

WrapInit ==
  /\ pc = "wrap"
  /\ \E inp \in WrapInputs : w_text = inp[1] /\ w_cols = inp[2]
  /\ w_out = << >>
  /\ src = << >> /\ blocks = << >>
  /\ RunIdle /\ ParseIdle

\* out = wrap_text_to_cols(text, cols)
Wrap ==
  /\ pc = "wrap"
  /\ w_out' = wrap_text_to_cols(w_text, w_cols)
  /\ pc' = "wrapped"
  /\ UNCHANGED << src, blocks, runvars, w_text, w_cols, parsevars >>

WrapNext == Wrap

SpecWrap == WrapInit /\ [][WrapNext]_vars

(* ----------------------------------------------------------------------- *)
(* The block parser on its own, one loop iteration per step                *)
(* ----------------------------------------------------------------------- *)

\* most source lines of a source document in the parser specification
MaxParseLines == 3

ParsePool ==
  { << >>,
    << " " >>,
    << "A", "B" >>,
    << "-", " " >>,
    << "U+30FB" >>,
    << "-", " ", "h", "e", "l", "l", "o" >>,
    << "#", "#", " ", "H" >>,
    DefaultMarker }

RECURSIVE ParseLineSeqs(_)
ParseLineSeqs(n) ==
  IF n = 0 THEN { << >> }
  ELSE ParseLineSeqs(n - 1) \cup {Append(ls, l) : ls \in {x \in ParseLineSeqs(n - 1) : Len(x) = n - 1}, l \in ParsePool}

ParseSources == {Text(ls) : ls \in ParseLineSeqs(MaxParseLines)} \cup {ScenarioSrc}

ParseInit ==
  /\ pc = "parse"
  /\ src \in ParseSources
  /\ blocks = << >>
  /\ p_lines = << >> /\ p_i = 0
  /\ RunIdle /\ WrapIdle

\* parse_markdown, lines 318-319: normalise the line ends, split, i = 0
ParseStart ==
  /\ pc = "parse"
  /\ p_lines' = SourceLines(src)
  /\ p_i' = 1
  /\ pc' = "parsing"
  /\ UNCHANGED << src, blocks, runvars, wrapvars >>

\* parse_markdown: one iteration of "while i < len(lines)"
ParseStep ==
  /\ pc = "parsing" /\ p_i <= Len(p_lines)
  /\ LET it == ParseIter(p_lines, p_i, pagebreak_marker)
     IN  blocks' = blocks \o it.add /\ p_i' = it.next
  /\ UNCHANGED << pc, src, p_lines, runvars, wrapvars >>

\* parse_markdown: return blocks
ParseReturn ==
  /\ pc = "parsing" /\ p_i > Len(p_lines)
  /\ pc' = "parsed"
  /\ UNCHANGED << src, blocks, runvars, wrapvars, parsevars >>

ParseNext == ParseStart \/ ParseStep \/ ParseReturn

SpecParse == ParseInit /\ [][ParseNext]_vars

(* ----------------------------------------------------------------------- *)
(* Properties                                                              *)
(* ----------------------------------------------------------------------- *)

\* number of lines the commit loop appended while the cursor was on page k
CountOn(k) == Cardinality({j \in 1..Len(placed) : placed[j].page = k})

\* C1 (pass agreement): while the commit loop runs it has advanced the page only
\* at (block, line) positions where the estimation pass advanced it, and at the
\* end of the commit loop page_idx + 1 is the page count the estimation pass
\* returned and both passes advanced the page at exactly the same positions.
C1_PassAgreement ==
  /\ pc \in {"commit", "done"} => (com_inc \subseteq est_inc /\ page_idx + 1 <= required_pages)
  /\ pc = "done" => (required_pages = page_idx + 1 /\ com_inc = est_inc)

\* a finished run that advanced the page at a page break and inside a block
C1_Witness ==
  /\ pc = "done" /\ page_idx >= 2
  /\ \E q \in com_inc : q[2] = 0
  /\ \E q \in com_inc : q[2] > 1

\* C2 (per-page capacity): at most lines_per_page(k) lines are appended while
\* the cursor is on page k, and a line appended after an overflow is on the page
\* after the one of the previous line, which is full.
C2_PerPageCapacity ==
  /\ \A k \in {placed[j].page : j \in 1..Len(placed)} : CountOn(k) <= limits(settings, k)[1]
  /\ \A j \in 1..Len(placed) :
       placed[j].overflow =>
         /\ j > 1
         /\ placed[j].page = placed[j - 1].page + 1
         /\ CountOn(placed[j - 1].page) = limits(settings, placed[j - 1].page)[1]

\* a finished run in which a full page made a line go to the next page
C2_Witness ==
  /\ pc = "done"
  /\ \E j \in 1..Len(placed) : placed[j].overflow /\ CountOn(placed[j].page - 1) = MaxLp

\* the single over-wide character line that the width bound exempts
LoneOversized(line, cols) == Len(line) = 1 /\ CharWidth(line[1]) > cols

\* C3 (width monotonicity): every line wrap_text_to_cols returns has a width
\* sum of at most the column budget, except a line that is one character wider
\* than the budget.
C3_WidthMonotonicity ==
  pc = "wrapped" =>
    \A k \in 1..Len(w_out) :
      WidthSum(w_out[k]) <= w_cols \/ LoneOversized(w_out[k], w_cols)

\* a wrap at one column that produced the exempted line next to ordinary lines
C3_Witness ==
  /\ pc = "wrapped" /\ Len(w_out) >= 3
  /\ \E k \in 1..Len(w_out) : LoneOversized(w_out[k], w_cols)
  /\ \E k \in 1..Len(w_out) : Len(w_out[k]) = 1 /\ WidthSum(w_out[k]) = w_cols

RECURSIVE Flatten(_)
Flatten(ss) == IF Len(ss) = 0 THEN << >> ELSE ss[1] \o Flatten(Tail(ss))

\* the lines held by the containers of pages 0..page_idx, in page order
OnPages == Flatten([k \in 1..(page_idx + 1) |-> IF (k - 1) \in DOMAIN handle THEN content[handle[k - 1]] ELSE << >>])

\* a line without the leading spaces the commit loop strips or adds
Unpadded(ls) == [k \in 1..Len(ls) |-> lstripChars(ls[k], {FULLWIDTH_SPACE, " "})]

\* C4 (block order preservation): after the commit pass the lines on the pages,
\* concatenated in page order, are the wrapped lines of the blocks in source
\* order (compared here without leading spaces, which the commit loop strips
\* from heading lines and adds as indent): none dropped, duplicated, reordered.
C4_BlockOrderPreservation ==
  pc = "done" => Unpadded(OnPages) = Unpadded(wrapped)

\* C5 (idempotent page handle lookup): at every point of the commit pass a
\* further call get_page(i) returns the element the first call get_page(i)
\* returned, for every page index i asked for so far.
C5_IdempotentLookup ==
  pc \in {"commit", "done"} =>
    \A i \in DOMAIN handle : get_page(i, Dom(doc, content, phys, pages)).el = handle[i]

\* a page made during the commit loop got two lines, and a later page was made
C5_Witness ==
  /\ pc = "done"
  /\ \E i \in DOMAIN handle : i >= 2 /\ CountOn(i) >= 2 /\ (i + 1) \in DOMAIN handle

\* the blocks the scenario expects
ScenarioBlocks ==
  << Block("h2", << "T", "i", "t", "l", "e" >>),
     Block("p", << >>),
     Block("p", << "B", "o", "d", "y", " ", "t", "e", "x", "t" >>),
     Block("li", << "U+30FB", "i", "t", "e", "m", " ", "o", "n", "e" >>),
     Block("li", << "U+30FB", "i", "t", "e", "m", " ", "t", "w", "o" >>) >>

\* C6 (scenario): the source "## Title\n\nBody text\n- item one\n- item two\n"
\* parses to Heading, empty Paragraph, Paragraph "Body text" and two ListItems,
\* and with 2 lines per page the third placed line is on page 2.
C6_Scenario ==
  (src = ScenarioSrc /\ settings = ScenarioSettings /\ pc = "done") =>
    /\ blocks = ScenarioBlocks
    /\ Len(placed) >= 3
    /\ placed[1].page = 0 /\ placed[2].page = 0 /\ placed[3].page = 1

\* C7 (empty source): for the empty source the parser returns no block, the
\* estimation returns 1 and the commit pass appends no line.
C7_EmptySource ==
  (src = << >> /\ pc = "done") =>
    /\ blocks = << >>
    /\ required_pages = 1 /\ e_page_idx = 0
    /\ placed = << >>

Bullets == {"-", "*", "U+FF0D", "U+FF0A", "U+30FB", "U+2022"}

\* a bullet with nothing but spaces around it
BareBullet(line) == Len(strip(line)) = 1 /\ strip(line)[1] \in Bullets

\* C8 (list-item guard): a block started at the line "- " is a Paragraph, a
\* block started at "- hello" is the ListItem with text (middle dot)hello; a
\* block started at any bare bullet line is a Paragraph whose first line is that
\* line, and in the result no ListItem is a bare bullet and every bare bullet
\* line of the source is a line of some Paragraph.
C8_ListItemGuard ==
  /\ [][ (pc = "parsing" /\ p_i <= Len(p_lines)) =>
           LET line == p_lines[p_i]
               new  == blocks'[Len(blocks) + 1]
           IN  /\ Len(blocks') > Len(blocks)
               /\ line = << "-", " " >> => new.type = "p"
               /\ line = << "-", " ", "h", "e", "l", "l", "o" >> =>
                    new = Block("li", << "U+30FB", "h", "e", "l", "l", "o" >>)
               /\ BareBullet(line) =>
                    (new.type = "p" /\ rstrip(Split(new.text, "\n")[1]) = rstrip(line)) ]_vars
  /\ [](pc = "parsed" =>
         /\ \A b \in 1..Len(blocks) :
              blocks[b].type = "li" => Len(blocks[b].text) > 1
         /\ \A i \in 1..Len(p_lines) :
              BareBullet(p_lines[i]) =>
                \E b \in 1..Len(blocks) :
                  /\ blocks[b].type = "p"
                  /\ \E l \in 1..Len(Split(blocks[b].text, "\n")) :
                       rstrip(Split(blocks[b].text, "\n")[l]) = rstrip(p_lines[i]))

\* a parse that met "- " and "- hello" at the start of a block
C8_Witness ==
  /\ pc = "parsed"
  /\ \E b \in 1..Len(blocks) : blocks[b] = Block("p", << "-" >>)
  /\ \E b \in 1..Len(blocks) : blocks[b] = Block("li", << "U+30FB", "h", "e", "l", "l", "o" >>)
  /\ \E i \in 1..Len(p_lines) : p_lines[i] = << "-", " " >>

\* C9 (page-break recognition): the parser returns as many PageBreak blocks as
\* the source has lines whose trimmed content is the page-break marker.
C9_PageBreakRecognition ==
  pc = "parsed" =>
    Cardinality({b \in 1..Len(blocks) : blocks[b].type = "pagebreak"})
      = Cardinality({i \in 1..Len(p_lines) : strip(p_lines[i]) = pagebreak_marker})

\* C10 (estimate before commit): when a line has been appended the estimation
\* has returned, the provisioning loop is over and has made the layers
\* p3..p{required_pages}; no layer is ever provisioned above required_pages.
C10_EstimateBeforeCommit ==
  /\ placed # << >> =>
       /\ pc \in {"commit", "done"}
       /\ required_pages >= 1
       /\ \A n \in 3..required_pages : n \in provisioned
  /\ \A n \in provisioned : required_pages >= 1 /\ n <= required_pages

\* a line was appended in a run that needed pages p3 and p4
C10_Witness ==
  /\ placed # << >> /\ required_pages >= 4 /\ {3, 4} \subseteq provisioned

\* the value the settings source supplies for page idx in the named map: the
\* entry of the page, else the default entry, else the hard-coded value; the
\* built-in settings when there is no file or it is not JSON
Supplied(f, map, idx, builtin_p1, hard) ==
  IF f.kind # "json"
  THEN IF idx = 0 THEN builtin_p1 ELSE hard
  ELSE LET m == IF map \in DOMAIN f.value THEN f.value[map] ELSE EmptyMap
       IN  IF PageLabel(idx + 1) \in DOMAIN m THEN m[PageLabel(idx + 1)]
           ELSE IF "default" \in DOMAIN m THEN m["default"] ELSE hard

\* C11 (settings fallback): whatever the settings source is (absent, not JSON,
\* JSON without the maps or without entries) the run does not die of it, and
\* once the settings are read the capacity of every page is the value the
\* source supplies, else the hard-coded default.
C11_SettingsFallback ==
  /\ pc # "error"
  /\ pc \in {"estimate", "provision", "commit", "done"} =>
       \A idx \in 0..3 :
         limits(settings, idx) =
           << Supplied(settings_file, "lines_per_page", idx, 21, 30),
              Supplied(settings_file, "cols_per_line", idx, 86, 48) >>

\* the source document is missing, or layer p1 or p2, or the text of one of them
MissingInput ==
  \/ ~md_exists
  \/ \A i \in 1..Len(doc) : doc[i].label # "p1"
  \/ \A i \in 1..Len(doc) : doc[i].label # "p2"
  \/ doc[find_layer_by_label(doc, "p1")].text = 0
  \/ doc[find_layer_by_label(doc, "p2")].text = 0

\* C12 (fatal precondition errors): when the source document, layer p1 or p2,
\* or the text anchor of one of them is missing, the run aborts in its first
\* step, and that step clears and restyles no text element, appends no line
\* and creates or deletes no layer.
C12_FatalPreconditions ==
  [][ (pc = "start" /\ MissingInput) =>
        /\ pc' = "abort"
        /\ doc' = doc /\ content' = content /\ styled' = styled
        /\ pages' = pages /\ placed' = placed ]_vars

\* an abort because layer p2 holds no text: the text of p1 still has its lines
C12_Witness ==
  /\ pc = "abort" /\ md_exists
  /\ Len(doc) = 2 /\ doc[1] = Layer("p1", 1) /\ doc[2] = Layer("p2", 0)
  /\ content[1] = OldContent /\ styled = {}

\* both variants resolve the same capacities for the pages the run used
SameCapacities ==
  \A k \in 0..(page_idx + 1) : limits_single(settings, k) = limits(settings, k)

\* C13 (fallback design equivalence): run on the same blocks with the same
\* capacities, the single-pass variant appends as many lines as the two-pass
\* variant and each line under the same page index, and in both variants all
\* lines of one page index go to one and the same container.
C13_FallbackEquivalence ==
  (pc = "s_done" /\ SameCapacities) =>
    /\ Len(s_placed) = Len(placed)
    /\ \A j \in 1..Len(placed) : s_placed[j].page = placed[j].page
    /\ \A j, k \in 1..Len(placed) :
         placed[j].page = placed[k].page => placed[j].el = placed[k].el
    /\ \A j, k \in 1..Len(s_placed) :
         s_placed[j].page = s_placed[k].page => s_placed[j].el = s_placed[k].el

\* 1 when the step is an iteration of the estimation pass over a line
EstLineStep ==
  IF pc = "estimate" /\ e_bi <= Len(blocks) /\ blocks[e_bi].type # "pagebreak" THEN 1 ELSE 0

\* C14 (cursor monotonicity): in every step and in both passes the page index
\* stays or grows by 1; the line count of the page after the step is the number
\* of lines the step placed (0 or 1), counted from 0 when the page index grew
\* and from its old value otherwise.
C14_CursorMonotonicity ==
  [][ /\ e_page_idx' \in {e_page_idx, e_page_idx + 1}
      /\ e_used' = (IF e_page_idx' # e_page_idx THEN 0 ELSE e_used) + EstLineStep
      /\ page_idx' \in {page_idx, page_idx + 1}
      /\ Len(placed') - Len(placed) \in {0, 1}
      /\ used' = (IF page_idx' # page_idx THEN 0 ELSE used) + (Len(placed') - Len(placed)) ]_vars

\* the commit loop is on a later page with two lines on it, after the
\* estimation went through a page break with lines counted and an overflow
C14_Witness ==
  /\ pc = "commit" /\ page_idx >= 1 /\ used = 2
  /\ \E q \in est_inc : q[1] > 1 /\ q[2] = 0
  /\ \E q \in est_inc : q[2] > 0
  /\ \E j \in 1..Len(placed) : placed[j].overflow

NoBreakToken(text) ==
  \A i \in 1..Len(text) :
    /\ text[i] # "\n"
    /\ ~StartsWithAt(text, i, << "<", "b", "r", ">" >>)
    /\ text[i] = "\\" =>
         /\ ~(i < Len(text) /\ text[i + 1] = "\\")
         /\ \E j \in (i + 1)..Len(text) : ~IsSpace(text[j])

\* out[k..] are the lines of text from character i on, each closed right before
\* the character that would push its width sum above c, which starts the next
\* line unless it is a plain space
RECURSIVE GreedyFrom(_, _, _, _, _)
GreedyFrom(text, i, out, k, c) ==
  LET n == Len(out[k])
  IN  /\ i + n - 1 <= Len(text)
      /\ out[k] = SubSeq(text, i, i + n - 1)
      /\ IF k = Len(out)
         THEN i + n - 1 = Len(text)
         ELSE /\ i + n <= Len(text)
              /\ WidthSum(out[k]) + CharWidth(text[i + n]) > c
              /\ GreedyFrom(text, IF text[i + n] = " " THEN i + n + 1 ELSE i + n, out, k + 1, c)

\* C16 (greedy wrapping): for a text without break tokens and a column budget
\* of at least 1, each line but the last ends right before a character that
\* would push the width sum above the budget; that character is dropped when it
\* is a plain space and starts the next line otherwise; the lines and the
\* dropped spaces make up the text.  "ABCDEFGH" at 5 columns gives "ABCDE", "FGH".
C16_GreedyWrapping ==
  (pc = "wrapped" /\ NoBreakToken(w_text) /\ w_cols >= 1) =>
    /\ Len(w_out) >= 1
    /\ GreedyFrom(w_text, 1, w_out, 1, w_cols)
    /\ (w_text = << "A", "B", "C", "D", "E", "F", "G", "H" >> /\ w_cols = 5) =>
         w_out = << << "A", "B", "C", "D", "E" >>, << "F", "G", "H" >> >>

\* "ABCDEFGH" wrapped at 5 columns
C16_Witness ==
  /\ pc = "wrapped" /\ w_cols = 5 /\ NoBreakToken(w_text)
  /\ w_text = << "A", "B", "C", "D", "E", "F", "G", "H" >>
  /\ w_out = << << "A", "B", "C", "D", "E" >>, << "F", "G", "H" >> >>

\* number of "<br>" tokens and of pairs of backslashes in text from character i
RECURSIVE BreakTokens(_, _)
BreakTokens(text, i) ==
  IF i > Len(text) THEN 0
  ELSE IF StartsWithAt(text, i, << "<", "b", "r", ">" >>) THEN 1 + BreakTokens(text, i + 4)
  ELSE IF StartsWithAt(text, i, << "\\", "\\" >>) THEN 1 + BreakTokens(text, i + 2)
  ELSE BreakTokens(text, i + 1)

\* C17 (forced breaks): every "<br>" and every pair of backslashes of the text
\* is a line break of the result, so the result has at least one line more than
\* the text has such tokens and no line holds a token; the text A, backslash,
\* backslash, B wraps to exactly "A", "B" at every column budget from 1 on.
C17_ForcedBreaks ==
  pc = "wrapped" =>
    /\ Len(w_out) >= 1 + BreakTokens(w_text, 1)
    /\ \A k \in 1..Len(w_out) : BreakTokens(w_out[k], 1) = 0
    /\ w_text = << "A", "\\", "\\", "B" >> => w_out = << << "A" >>, << "B" >> >>

\* a pass stands before the wrap of a block at a column budget below 1
WrapsBelowOne ==
  \/ /\ pc = "estimate" /\ e_bi <= Len(blocks) /\ e_li = 0
     /\ blocks[e_bi].type # "pagebreak"
     /\ limits(settings, e_page_idx)[2] < 1
  \/ /\ pc = "commit" /\ bi <= Len(blocks) /\ li = 0
     /\ blocks[bi].type # "pagebreak"
     /\ limits(settings, page_idx)[2] < 1

\* C18 (column budget below 1): the run never gets to wrap a block at a column
\* budget below 1 and never appends a line to a page whose budget is below 1.
C18_ColumnBudgetBelowOne ==
  /\ ~WrapsBelowOne
  /\ \A j \in 1..Len(placed) : limits(settings, placed[j].page)[2] >= 1

\* no two layers of the document carry the same label
OneLayerPerLabel(d) == \A i, j \in 1..Len(d) : d[i].label = d[j].label => i = j

\* C19 (no duplicate page container): a step of the commit loop whose page
\* index k >= 2 has a layer p{k+1} made by the provisioning adds no layer to
\* the document, and when the run has ended no two layers carry the same label.
C19_NoDuplicatePageContainer ==
  /\ [][ (pc = "commit" /\ page_idx' >= 2 /\ (page_idx' + 1) \in provisioned) =>
           Len(doc') = Len(doc) ]_vars
  /\ [](pc \in {"done", "abort", "error"} => OneLayerPerLabel(doc))

\* C20 (placed lines stay in the document): at the end of a successful run
\* every line the commit loop appended is in a text element that a layer of
\* the document holds.
C20_PlacedLinesStayAttached ==
  pc = "done" => \A j \in 1..Len(placed) : Attached(doc, placed[j].el)

\* C21 (lines fit the page they land on): every line the commit loop appends
\* under page index k has a width sum of at most the column budget of page k;
\* a line of one character wider than the budget is left aside here.
C21_LinesFitTheirPage ==
  \A j \in 1..Len(placed) :
    \/ WidthSum(placed[j].line) <= limits(settings, placed[j].page)[2]
    \/ LoneOversized(placed[j].line, limits(settings, placed[j].page)[2])

\* C22 (no spurious blank lines): for a text that is one paragraph (no break
\* token) and a column budget of at least 1, the result is the single empty
\* line when the paragraph is empty and holds no empty line otherwise.
C22_NoSpuriousBlankLines ==
  (pc = "wrapped" /\ NoBreakToken(w_text) /\ w_cols >= 1) =>
    IF w_text = << >>
    THEN w_out = << << >> >>
    ELSE \A k \in 1..Len(w_out) : w_out[k] # << >>

====
